---- MODULE Spec2Model ----
(***************************************************************************)
(* A model of the ingestion/retrieval core of the Ableton Live manual      *)
(* assistant: the line normaliser (pipeline/extract_text.py), the heading   *)
(* driven chunker (pipeline/chunk_text.py), the vector store               *)
(* (core/vector_store.py) and the build-time stages that connect them.      *)
(*                                                                         *)
(* Text is modelled as a sequence of one-character strings, so that the    *)
(* regular expressions of the source are matched character by character.   *)
(***************************************************************************)
EXTENDS Integers, Sequences, FiniteSets, TLC

VARIABLES
    \* pipeline/chunk_text.py, chunk_text_from_file
    lines, pos, chunks, current_id, current_title, current_content, chain,
    output, cpc,
    \* pipeline/extract_text.py, _clean_line and _is_heading on one raw line
    raw, cleaned, heading, npc,
    \* core/vector_store.py: the VectorStore instances, the file at the path,
    \* the last call with its arguments, what it returned, and the records of
    \* the store that save was last called on
    store, file, call, ret, result, saved,
    \* the build-time stages: the files at PDF_PATH, MANUAL_TEXT_PATH and
    \* CHUNKS_PATH (the one at EMBEDDINGS_PATH is file), and the last run of
    \* a stage with the artifacts it found when it started
    pdf, manual_text, chunks_file, run,
    \* one call of a function of the pipeline: its arguments, what it returns
    fn_arg, fn_val, fn_pc

chunkVars == <<lines, pos, chunks, current_id, current_title, current_content,
               chain, output, cpc>>

cleanVars == <<raw, cleaned, heading, npc>>

storeVars == <<store, file, call, ret, result, saved>>

pipeVars == <<pdf, manual_text, chunks_file, run>>

fnVars == <<fn_arg, fn_val, fn_pc>>

vars == <<chunkVars, cleanVars, storeVars, pipeVars, fnVars>>

-----------------------------------------------------------------------------
(* Characters and elementary string functions of Python *)

Digit == {"0", "1", "2", "3", "4", "5", "6", "7", "8", "9"}

NL == "\n"

Space == {" ", NL}

IsDigit(s, i) == i >= 1 /\ i <= Len(s) /\ s[i] \in Digit

IsSpace(s, i) == i >= 1 /\ i <= Len(s) /\ s[i] \in Space

IsChar(s, i, c) == i >= 1 /\ i <= Len(s) /\ s[i] = c

RECURSIVE DigitRun(_, _)
\* the number of consecutive digits of s from position i on: a greedy \d*
DigitRun(s, i) == IF IsDigit(s, i) THEN 1 + DigitRun(s, i + 1) ELSE 0

RECURSIVE SpaceRun(_, _)
\* the number of consecutive whitespace characters of s from position i on
SpaceRun(s, i) == IF IsSpace(s, i) THEN 1 + SpaceRun(s, i + 1) ELSE 0

RECURSIVE SpaceRunBack(_, _)
\* the number of consecutive whitespace characters of s from position i down
SpaceRunBack(s, i) == IF IsSpace(s, i) THEN 1 + SpaceRunBack(s, i - 1) ELSE 0

\* str.strip()
Strip(s) == SubSeq(s, 1 + SpaceRun(s, 1), Len(s) - SpaceRunBack(s, Len(s)))

RECURSIVE Join(_, _)
\* sep.join(parts)
Join(sep, parts) ==
    IF parts = <<>> THEN <<>>
    ELSE IF Len(parts) = 1 THEN parts[1]
    ELSE parts[1] \o sep \o Join(sep, Tail(parts))

RECURSIVE Count(_, _)
\* str.count(c) for a one-character c
Count(s, c) ==
    IF s = <<>> THEN 0
    ELSE (IF Head(s) = c THEN 1 ELSE 0) + Count(Tail(s), c)

RECURSIVE Split(_, _)
\* str.split(c) for a one-character c
Split(s, c) ==
    IF \A i \in 1..Len(s) : s[i] # c THEN <<s>>
    ELSE LET k == CHOOSE i \in 1..Len(s) :
                      s[i] = c /\ \A j \in 1..(i - 1) : s[j] # c
         IN <<SubSeq(s, 1, k - 1)>> \o Split(SubSeq(s, k + 1, Len(s)), c)

RECURSIVE DottedEnd(_, _)
\* the last position of a greedy (?:\.\d+)* that starts at position i + 1,
\* i when no group matches
DottedEnd(s, i) ==
    IF IsChar(s, i + 1, ".") /\ DigitRun(s, i + 2) >= 1
    THEN DottedEnd(s, i + 1 + DigitRun(s, i + 2))
    ELSE i

\* the last position of a greedy \s+(.+) that starts at position i, 0 when it
\* does not match, and the start of its group
TitleMatches(s, i) ==
    SpaceRun(s, i) >= 1 /\ (i + SpaceRun(s, i) <= Len(s) \/ SpaceRun(s, i) >= 2)

TitleStart(s, i) ==
    IF i + SpaceRun(s, i) <= Len(s) THEN i + SpaceRun(s, i) ELSE Len(s)

-----------------------------------------------------------------------------
(* pipeline/extract_text.py: _clean_line and _is_heading *)

RECURSIVE Rewrite(_, _, _, _)
\* re.sub from position i on: ends[p] is the last position of the match that
\* starts at p (0 when the pattern does not match there), repls[p] what
\* replaces it; matches are taken leftmost first and do not overlap
Rewrite(s, ends, repls, i) ==
    IF i > Len(s) THEN <<>>
    ELSE IF ends[i] > 0 THEN repls[i] \o Rewrite(s, ends, repls, ends[i] + 1)
    ELSE <<s[i]>> \o Rewrite(s, ends, repls, i + 1)

RECURSIVE Remove(_, _)
\* re.sub of runs of the characters of cs by nothing
Remove(s, cs) ==
    IF s = <<>> THEN <<>>
    ELSE (IF Head(s) \in cs THEN <<>> ELSE <<Head(s)>>) \o Remove(Tail(s), cs)

RECURSIVE CharRun(_, _, _)
\* the number of consecutive characters c of s from position i on
CharRun(s, i, c) == IF IsChar(s, i, c) THEN 1 + CharRun(s, i + 1, c) ELSE 0

\* re.sub of every run of c (of at least atleast characters) by one c
CollapseRuns(s, c, atleast) ==
    Rewrite(s,
            [p \in 1..Len(s) |->
                IF CharRun(s, p, c) >= atleast THEN p + CharRun(s, p, c) - 1 ELSE 0],
            [p \in 1..Len(s) |-> <<c>>], 1)

RECURSIVE PageGroups(_, _, _)
\* (?:\d+\s?){1,n}$ matches s from position j on
PageGroups(s, j, n) ==
    /\ n >= 1
    /\ \E d \in 1..DigitRun(s, j) :
          \/ j + d > Len(s)
          \/ PageGroups(s, j + d, n - 1)
          \/ /\ IsSpace(s, j + d)
             /\ (j + d + 1 > Len(s) \/ PageGroups(s, j + d + 1, n - 1))

MaxPageGroups == 3

\* r'\s+(?:\d+\s?){1,3}$' at position i
PageNumberEnd(s, i) ==
    IF IsSpace(s, i) /\ PageGroups(s, i + SpaceRun(s, i), MaxPageGroups)
    THEN Len(s) ELSE 0

StripPageNumber(s) ==
    Rewrite(s, [p \in 1..Len(s) |-> PageNumberEnd(s, p)],
            [p \in 1..Len(s) |-> <<>>], 1)

\* re.fullmatch(r'^-+$', s)
OnlyDashes(s) == s # <<>> /\ \A p \in 1..Len(s) : s[p] = "-"

\* re.fullmatch(r'^\s*$', s)
OnlySpaces(s) == \A p \in 1..Len(s) : s[p] \in Space

\* re.fullmatch(r'^\d+(\.\d+)*\.?$', norm)
BareNumeral(norm) ==
    /\ DigitRun(norm, 1) >= 1
    /\ LET e == DottedEnd(norm, DigitRun(norm, 1))
       IN e = Len(norm) \/ (e + 1 = Len(norm) /\ norm[e + 1] = ".")

\* the last position of \d+\.\d+(?:\.\d+)* at position i, 0 without a match
DottedNumeralEnd(s, i) ==
    IF DigitRun(s, i) >= 1
       /\ DottedEnd(s, i + DigitRun(s, i) - 1) > i + DigitRun(s, i) - 1
    THEN DottedEnd(s, i + DigitRun(s, i) - 1) ELSE 0

\* r'^(\d+)\s+(\d+)(\s*\.)' -> r'\1\2\3'
MergeLeadEnd(s, i) ==
    LET a == DigitRun(s, 1)
        w == SpaceRun(s, a + 1)
        b == DigitRun(s, a + w + 1)
        v == SpaceRun(s, a + w + b + 1)
    IN IF i = 1 /\ a >= 1 /\ w >= 1 /\ b >= 1 /\ IsChar(s, a + w + b + v + 1, ".")
       THEN a + w + b + v + 1 ELSE 0

MergeLeadRepl(s, i) ==
    SubSeq(s, 1, DigitRun(s, 1))
    \o SubSeq(s, DigitRun(s, 1) + SpaceRun(s, DigitRun(s, 1) + 1) + 1,
              MergeLeadEnd(s, i))

MergeLead(s) ==
    Rewrite(s, [p \in 1..Len(s) |-> MergeLeadEnd(s, p)],
            [p \in 1..Len(s) |-> MergeLeadRepl(s, p)], 1)

\* r'(\d+)\s*\.\s*(\d+)' -> r'\1.\2'
CloseDotEnd(s, i) ==
    LET a == DigitRun(s, i)
        w == SpaceRun(s, i + a)
        v == SpaceRun(s, i + a + w + 1)
        b == DigitRun(s, i + a + w + 1 + v)
    IN IF a >= 1 /\ IsChar(s, i + a + w, ".") /\ b >= 1
       THEN i + a + w + v + b ELSE 0

CloseDotRepl(s, i) ==
    LET e == CloseDotEnd(s, i)
        a == DigitRun(s, i)
        w == SpaceRun(s, i + a)
        v == SpaceRun(s, i + a + w + 1)
    IN SubSeq(s, i, i + a - 1) \o <<".">> \o SubSeq(s, i + a + w + 1 + v, e)

CloseDot(s) ==
    Rewrite(s, [p \in 1..Len(s) |-> CloseDotEnd(s, p)],
            [p \in 1..Len(s) |-> CloseDotRepl(s, p)], 1)

\* r'(\d+\.\d+(?:\.\d+)*)\s+(\d+\.\d+(?:\.\d+)*)' -> r'\1.\2'
JoinNumeralsEnd(s, i) ==
    LET e == DottedNumeralEnd(s, i)
        w == SpaceRun(s, e + 1)
    IN IF e > 0 /\ w >= 1 THEN DottedNumeralEnd(s, e + w + 1) ELSE 0

JoinNumeralsRepl(s, i) ==
    LET e == DottedNumeralEnd(s, i)
        w == SpaceRun(s, e + 1)
    IN SubSeq(s, i, e) \o <<".">> \o SubSeq(s, e + w + 1, JoinNumeralsEnd(s, i))

JoinNumerals(s) ==
    Rewrite(s, [p \in 1..Len(s) |-> JoinNumeralsEnd(s, p)],
            [p \in 1..Len(s) |-> JoinNumeralsRepl(s, p)], 1)

\* r'(\d+\.\d+)\s+(\d)(?!\.)' -> r'\1\2'
MergeDigitEnd(s, i) ==
    LET a == DigitRun(s, i)
        b == DigitRun(s, i + a + 1)
        w == SpaceRun(s, i + a + 1 + b)
        q == i + a + 1 + b + w
    IN IF a >= 1 /\ IsChar(s, i + a, ".") /\ b >= 1 /\ w >= 1
          /\ IsDigit(s, q) /\ ~IsChar(s, q + 1, ".")
       THEN q ELSE 0

MergeDigitRepl(s, i) ==
    LET a == DigitRun(s, i)
        b == DigitRun(s, i + a + 1)
    IN SubSeq(s, i, i + a + b) \o <<s[MergeDigitEnd(s, i)]>>

MergeDigit(s) ==
    Rewrite(s, [p \in 1..Len(s) |-> MergeDigitEnd(s, p)],
            [p \in 1..Len(s) |-> MergeDigitRepl(s, p)], 1)

\* r'(\d+\.)\s+(\d+)' -> r'\1\2'
CloseAfterDotEnd(s, i) ==
    LET a == DigitRun(s, i)
        w == SpaceRun(s, i + a + 1)
        b == DigitRun(s, i + a + 1 + w)
    IN IF a >= 1 /\ IsChar(s, i + a, ".") /\ w >= 1 /\ b >= 1
       THEN i + a + w + b ELSE 0

CloseAfterDotRepl(s, i) ==
    LET a == DigitRun(s, i)
        w == SpaceRun(s, i + a + 1)
    IN SubSeq(s, i, i + a) \o SubSeq(s, i + a + 1 + w, CloseAfterDotEnd(s, i))

CloseAfterDot(s) ==
    Rewrite(s, [p \in 1..Len(s) |-> CloseAfterDotEnd(s, p)],
            [p \in 1..Len(s) |-> CloseAfterDotRepl(s, p)], 1)

\* r'(\d+)\s*\.\s*(?=\S)' -> r'\1.'
TightenDotEnd(s, i) ==
    LET a == DigitRun(s, i)
        w == SpaceRun(s, i + a)
        v == SpaceRun(s, i + a + w + 1)
    IN IF a >= 1 /\ IsChar(s, i + a + w, ".") /\ i + a + w + v + 1 <= Len(s)
       THEN i + a + w + v ELSE 0

TightenDotRepl(s, i) == SubSeq(s, i, i + DigitRun(s, i) - 1) \o <<".">>

TightenDot(s) ==
    Rewrite(s, [p \in 1..Len(s) |-> TightenDotEnd(s, p)],
            [p \in 1..Len(s) |-> TightenDotRepl(s, p)], 1)

\* r'\.\s*\.' -> '.'
DotPairEnd(s, i) ==
    IF IsChar(s, i, ".") /\ IsChar(s, i + 1 + SpaceRun(s, i + 1), ".")
    THEN i + 1 + SpaceRun(s, i + 1) ELSE 0

DotPair(s) ==
    Rewrite(s, [p \in 1..Len(s) |-> DotPairEnd(s, p)],
            [p \in 1..Len(s) |-> <<".">>], 1)

\* the repairs of _clean_line, in the order of the source
Repaired(s) ==
    CollapseRuns(
        DotPair(TightenDot(CloseAfterDot(MergeDigit(JoinNumerals(CloseDot(
            MergeLead(s))))))),
        ".", 2)

_clean_line(line) ==
    LET s == StripPageNumber(Strip(line))
        norm == Remove(CollapseRuns(s, ".", 1), Space)
    IN IF s = <<>> \/ OnlySpaces(s) \/ OnlyDashes(s) THEN <<>>
       ELSE IF BareNumeral(norm) THEN <<>>
       ELSE Strip(CollapseRuns(Repaired(s), " ", 1))

MaxHeadingDigits == 2

\* re.match(r'^\s*\d{1,2}(?:\.\d+)*\.?\s+.+', line)
_is_heading(line) ==
    LET w == SpaceRun(line, 1)
        d == DigitRun(line, w + 1)
        e == DottedEnd(line, w + d)
        f == IF IsChar(line, e + 1, ".") THEN e + 1 ELSE e
    IN d >= 1 /\ d <= MaxHeadingDigits /\ TitleMatches(line, f + 1)

\* cleaned = _clean_line(line)
CleanLine ==
    /\ npc = "raw"
    /\ cleaned' = _clean_line(raw)
    /\ npc' = "cleaned"
    /\ UNCHANGED <<raw, heading>>
    /\ UNCHANGED <<chunkVars, storeVars, pipeVars, fnVars>>

\* _is_heading(cleaned), asked of a line that was not dropped
CheckHeading ==
    /\ npc = "cleaned"
    /\ cleaned # <<>>
    /\ heading' = _is_heading(cleaned)
    /\ npc' = "classified"
    /\ UNCHANGED <<raw, cleaned>>
    /\ UNCHANGED <<chunkVars, storeVars, pipeVars, fnVars>>

-----------------------------------------------------------------------------
(* pipeline/chunk_text.py *)

None == <<>>

ChapterPrefix == <<"C", "h", "a", "p", "t", "e", "r", " ">>

Levels == <<"main", "sub", "subsub", "deep">>

Min(a, b) == IF a <= b THEN a ELSE b

\* a plausible slip: the label is chosen by the number of parts of the id
LevelByParts(chunk_id) == Levels[Min(Count(chunk_id, ".") + 1, Len(Levels) - 1) + 1]

\* _level: the label is chosen by the number of dots, capped
_level(chunk_id) == Levels[Min(Count(chunk_id, "."), Len(Levels) - 1) + 1]

\* re.match(r"^(\d+)\.\s*(.*)$", line)
main_m(line) == DigitRun(line, 1) >= 1 /\ IsChar(line, DigitRun(line, 1) + 1, ".")

main_group1(line) == SubSeq(line, 1, DigitRun(line, 1))

main_group2(line) ==
    SubSeq(line, DigitRun(line, 1) + 2 + SpaceRun(line, DigitRun(line, 1) + 2),
           Len(line))

\* re.match(r"^(\d+(?:\.\d+)+)\s+(.+)", line)
sub_m(line) ==
    /\ DigitRun(line, 1) >= 1
    /\ DottedEnd(line, DigitRun(line, 1)) > DigitRun(line, 1)
    /\ TitleMatches(line, DottedEnd(line, DigitRun(line, 1)) + 1)

sub_group1(line) == SubSeq(line, 1, DottedEnd(line, DigitRun(line, 1)))

sub_group2(line) ==
    SubSeq(line, TitleStart(line, DottedEnd(line, DigitRun(line, 1)) + 1),
           Len(line))

\* the title _build_chain finds for the prefix pid: that of the first entry
\* of the chain with this id, a synthesized one when there is none
ChainTitle(pid, ch) ==
    IF \E j \in 1..Len(ch) : ch[j].chunk_id = pid
    THEN ch[CHOOSE j \in 1..Len(ch) :
                /\ ch[j].chunk_id = pid
                /\ \A m \in 1..(j - 1) : ch[m].chunk_id # pid].title
    ELSE ChapterPrefix \o pid

_build_chain(cid, ctitle, ch) ==
    LET parts == Split(cid, ".")
    IN [i \in 1..(Len(parts) - 1) |->
            LET pid == Join(<<".">>, SubSeq(parts, 1, i))
            IN [chunk_id |-> pid, title |-> ChainTitle(pid, ch)]]
       \o <<[chunk_id |-> cid, title |-> ctitle]>>

\* a plausible slip: the chain is copied whole, the heading itself included
ClosedChunkWholeChain(cid, ctitle, content, ch) ==
    [chunk_id |-> cid,
     title |-> ctitle,
     level |-> _level(cid),
     content |-> Strip(Join(<<" ">>, content)),
     parent_chain |-> ch]

\* the Chunk that closes the open heading, as to_dict writes it
ClosedChunk(cid, ctitle, content, ch) ==
    [chunk_id |-> cid,
     title |-> ctitle,
     level |-> _level(cid),
     content |-> Strip(Join(<<" ">>, content)),
     parent_chain |-> SubSeq(ch, 1, Len(ch) - 1)]

\* a plausible slip: a chunk without body text is not emitted
ClosedDropsEmpty(st) ==
    IF st.current_id # None /\ st.current_content # <<>>
    THEN Append(st.chunks, ClosedChunk(st.current_id, st.current_title,
                                       st.current_content, st.chain))
    ELSE st.chunks

\* chunks after the open chunk, if any, has been closed (at a heading and
\* after the loop)
Closed(st) ==
    IF st.current_id # None
    THEN Append(st.chunks, ClosedChunk(st.current_id, st.current_title,
                                       st.current_content, st.chain))
    ELSE st.chunks

\* a call of _level
CallLevel ==
    /\ fn_pc = "_level"
    /\ fn_val' = _level(fn_arg)
    /\ fn_pc' = "returned"
    /\ UNCHANGED fn_arg
    /\ UNCHANGED <<chunkVars, cleanVars, storeVars, pipeVars>>

\* the id and the title the heading branch opens for a heading line
HeadingId(line) == IF main_m(line) THEN main_group1(line) ELSE sub_group1(line)

HeadingTitle(line) ==
    IF main_m(line)
    THEN (IF main_group2(line) # <<>> THEN main_group2(line)
          ELSE ChapterPrefix \o main_group1(line))
    ELSE sub_group2(line)

\* the local state before the loop
Start ==
    [chunks |-> <<>>, current_id |-> None, current_title |-> <<>>,
     current_content |-> <<>>, chain |-> <<>>]

\* a plausible slip: the body lines are reset only where a chunk is closed
AtHeadingKeepsLeadingBody(st, line) ==
    [chunks |-> Closed(st),
     current_id |-> HeadingId(line),
     current_title |-> HeadingTitle(line),
     current_content |-> IF st.current_id # None THEN <<>> ELSE st.current_content,
     chain |-> IF main_m(line)
               THEN <<[chunk_id |-> HeadingId(line), title |-> HeadingTitle(line)]>>
               ELSE _build_chain(HeadingId(line), HeadingTitle(line), st.chain)]

\* the local state after the heading branch
AtHeading(st, line) ==
    [chunks |-> Closed(st),
     current_id |-> HeadingId(line),
     current_title |-> HeadingTitle(line),
     current_content |-> <<>>,
     chain |-> IF main_m(line)
               THEN <<[chunk_id |-> HeadingId(line), title |-> HeadingTitle(line)]>>
               ELSE _build_chain(HeadingId(line), HeadingTitle(line), st.chain)]

\* the local state after the body branch
AtBody(st, line) ==
    [st EXCEPT !.current_content = Append(st.current_content, line)]

\* the local state after one pass of the loop body
AtLine(st, rawline) ==
    IF Strip(rawline) = <<>> THEN st
    ELSE IF main_m(Strip(rawline)) \/ sub_m(Strip(rawline))
    THEN AtHeading(st, Strip(rawline))
    ELSE AtBody(st, Strip(rawline))

RECURSIVE AfterLines(_, _)
\* the local state after the loop over the lines ls
AfterLines(st, ls) ==
    IF ls = <<>> THEN st ELSE AfterLines(AtLine(st, Head(ls)), Tail(ls))

\* the chunks chunk_text_from_file writes for a file of the lines ls
chunk_text_from_file(ls) == Closed(AfterLines(Start, ls))

Cur ==
    [chunks |-> chunks, current_id |-> current_id, current_title |-> current_title,
     current_content |-> current_content, chain |-> chain]

SetCur(st) ==
    /\ chunks' = st.chunks
    /\ current_id' = st.current_id
    /\ current_title' = st.current_title
    /\ current_content' = st.current_content
    /\ chain' = st.chain

CurLine == Strip(lines[pos])

\* the loop body on a blank line: continue
StepBlank ==
    /\ cpc = "loop" /\ pos <= Len(lines)
    /\ CurLine = <<>>
    /\ pos' = pos + 1
    /\ UNCHANGED <<lines, chunks, current_id, current_title, current_content,
                   chain, output, cpc>>
    /\ UNCHANGED <<cleanVars, storeVars, pipeVars, fnVars>>

\* the loop body on a heading line: close the open chunk, open the next
StepHeading ==
    /\ cpc = "loop" /\ pos <= Len(lines)
    /\ CurLine # <<>>
    /\ main_m(CurLine) \/ sub_m(CurLine)
    /\ SetCur(AtHeading(Cur, CurLine))
    /\ pos' = pos + 1
    /\ UNCHANGED <<lines, output, cpc>>
    /\ UNCHANGED <<cleanVars, storeVars, pipeVars, fnVars>>

\* the loop body on any other line: body text
StepBody ==
    /\ cpc = "loop" /\ pos <= Len(lines)
    /\ CurLine # <<>>
    /\ ~(main_m(CurLine) \/ sub_m(CurLine))
    /\ SetCur(AtBody(Cur, CurLine))
    /\ pos' = pos + 1
    /\ UNCHANGED <<lines, output, cpc>>
    /\ UNCHANGED <<cleanVars, storeVars, pipeVars, fnVars>>

\* after the loop: close the open chunk, write the chunks, return their number
Finish ==
    /\ cpc = "loop" /\ pos > Len(lines)
    /\ chunks' = Closed(Cur)
    /\ output' = chunks'
    /\ cpc' = "done"
    /\ UNCHANGED <<lines, pos, current_id, current_title, current_content, chain>>
    /\ UNCHANGED <<cleanVars, storeVars, pipeVars, fnVars>>

-----------------------------------------------------------------------------
(* core/vector_store.py *)

\* Numbers are modelled by integers. A similarity is kept as the exact
\* fraction sign(dot) * dot^2 / (|q|^2 * |v|^2) in lowest terms: it orders
\* the records as the cosine dot / (|q| * |v|) does. The fraction 0/0 stands
\* for the result of a division by zero.

Instances == {"s1", "s2"}

\* np.array(embedding): the array keeps the numbers of the list
NpArray(list) == [ndarray |-> list]

\* ndarray -> list (the "vectors" column, .to_list())
ToList(array) == array.ndarray

\* VectorStore.__init__
EmptyStore == [vectors |-> <<>>, texts |-> <<>>, metadata |-> <<>>]

\* metadata or {}: an argument is [given |-> FALSE] for None
OrEmpty(m) == IF m.given /\ m.value # <<>> THEN m.value ELSE <<>>

\* the store after add(text, embedding, metadata)
Added(st, text, embedding, m) ==
    [vectors |-> Append(st.vectors, NpArray(embedding)),
     texts |-> Append(st.texts, text),
     metadata |-> Append(st.metadata, OrEmpty(m))]

RECURSIVE Dot(_, _)
\* np.dot of two vectors of one length
Dot(a, b) ==
    IF a = <<>> THEN 0 ELSE Head(a) * Head(b) + Dot(Tail(a), Tail(b))

Abs(x) == IF x < 0 THEN 0 - x ELSE x

RECURSIVE Gcd(_, _)
Gcd(a, b) == IF b = 0 THEN a ELSE Gcd(b, a % b)

\* the fraction n / d in lowest terms, 0/0 when d = 0
Fraction(n, d) ==
    IF d = 0 THEN [num |-> 0, den |-> 0]
    ELSE [num |-> n \div Gcd(Abs(n), d), den |-> d \div Gcd(Abs(n), d)]

Zero == [num |-> 0, den |-> 1]

\* a plausible slip: only the norm of the query is tested
SimilarityQueryGuardOnly(qv, vec) ==
    IF Dot(qv, qv) # 0
    THEN Fraction(Dot(qv, vec) * Abs(Dot(qv, vec)), Dot(qv, qv) * Dot(vec, vec))
    ELSE Zero

\* sim = float(np.dot(qv, vec) / (qn * vn)) if qn and vn else 0.0
Similarity(qv, vec) ==
    IF Dot(qv, qv) # 0 /\ Dot(vec, vec) # 0
    THEN Fraction(Dot(qv, vec) * Abs(Dot(qv, vec)), Dot(qv, qv) * Dot(vec, vec))
    ELSE Zero

\* a > b for two similarities
Greater(a, b) == a.num * b.den > b.num * a.den

\* scores: the pairs (i, sim) in the order of the store
Scores(st, query_embedding) ==
    [i \in 1..Len(st.vectors) |->
        [i |-> i,
         sim |-> Similarity(ToList(NpArray(query_embedding)),
                            ToList(st.vectors[i]))]]

\* a plausible slip: an ascending sort that is reversed, which also reverses
\* the records of equal similarity
InsertedBeforeEqual(sorted, x) ==
    LET before == {j \in 1..Len(sorted) : Greater(sorted[j].sim, x.sim)}
    IN SubSeq(sorted, 1, Cardinality(before)) \o <<x>>
       \o SubSeq(sorted, Cardinality(before) + 1, Len(sorted))

\* x put into a list sorted by similarity descending, after the entries that
\* are not smaller: the sort is stable
Inserted(sorted, x) ==
    LET before == {j \in 1..Len(sorted) : ~Greater(x.sim, sorted[j].sim)}
    IN SubSeq(sorted, 1, Cardinality(before)) \o <<x>>
       \o SubSeq(sorted, Cardinality(before) + 1, Len(sorted))

RECURSIVE SortedDescending(_, _)
\* scores.sort(key=lambda x: x[1], reverse=True), from the n-th entry back
SortedDescending(scores, n) ==
    IF n = 0 THEN <<>>
    ELSE Inserted(SortedDescending(scores, n - 1), scores[n])

Max(a, b) == IF a >= b THEN a ELSE b

\* seq[:k], the slice of Python: a negative k counts from the end
SliceTo(seq, k) ==
    IF k >= 0 THEN SubSeq(seq, 1, Min(k, Len(seq)))
    ELSE SubSeq(seq, 1, Max(Len(seq) + k, 0))

\* VectorStore.search
search(st, query_embedding, k) ==
    IF st.vectors = <<>> THEN <<>>
    ELSE LET top == SliceTo(SortedDescending(Scores(st, query_embedding),
                                             Len(st.vectors)), k)
         IN [j \in 1..Len(top) |->
                [text |-> st.texts[top[j].i],
                 metadata |-> st.metadata[top[j].i],
                 similarity |-> top[j].sim]]

\* the value of a struct field that a row does not have
Null == <<"None">>

\* the fields of the struct column "metadata": those of all rows
Fields(mds) == UNION {DOMAIN mds[i] : i \in 1..Len(mds)}

\* pl.DataFrame({"vectors": ..., "texts": ..., "metadata": ...}): one row
\* per record; the struct column has one set of fields for all rows
DataFrame(st) ==
    [i \in 1..Len(st.texts) |->
        [vectors |-> ToList(st.vectors[i]),
         texts |-> st.texts[i],
         metadata |-> [f \in Fields(st.metadata) |->
                          IF f \in DOMAIN st.metadata[i]
                          THEN st.metadata[i][f] ELSE Null]]]

NoFile == [exists |-> FALSE, rows |-> <<>>]

\* the three lists that load builds from the rows of the file
Loaded(rows) ==
    [vectors |-> [i \in 1..Len(rows) |-> NpArray(rows[i].vectors)],
     texts |-> [i \in 1..Len(rows) |-> rows[i].texts],
     metadata |-> [i \in 1..Len(rows) |-> rows[i].metadata]]

\* a plausible slip: the lists are reset before the file is looked for
AfterLoadResetFirst(st) == IF file.exists THEN Loaded(file.rows) ELSE EmptyStore

\* the store after load(path)
AfterLoad(st) == IF file.exists THEN Loaded(file.rows) ELSE st

\* add(text, embedding, metadata)
Add(s, text, embedding, m) ==
    /\ store' = [store EXCEPT ![s] = Added(store[s], text, embedding, m)]
    /\ call' = [op |-> "add", self |-> s, k |-> 0, q |-> <<>>]
    /\ ret' = "None"
    /\ UNCHANGED <<file, result, saved>>
    /\ UNCHANGED <<chunkVars, cleanVars, pipeVars, fnVars>>

\* search(query_embedding, k)
Search(s, query_embedding, k) ==
    /\ result' = search(store[s], query_embedding, k)
    /\ call' = [op |-> "search", self |-> s, k |-> k, q |-> query_embedding]
    /\ ret' = "list"
    /\ UNCHANGED <<store, file, saved>>
    /\ UNCHANGED <<chunkVars, cleanVars, pipeVars, fnVars>>

\* save(path). What the library does with a struct column that has rows but
\* no field (every metadata dict empty) is not modelled: the model has no
\* such save.
Save(s) ==
    /\ store[s].texts = <<>> \/ Fields(store[s].metadata) # {}
    /\ file' = [exists |-> TRUE, rows |-> DataFrame(store[s])]
    /\ ret' = "None"
    /\ call' = [op |-> "save", self |-> s, k |-> 0, q |-> <<>>]
    /\ saved' = [called |-> TRUE, records |-> store[s]]
    /\ UNCHANGED <<store, result>>
    /\ UNCHANGED <<chunkVars, cleanVars, pipeVars, fnVars>>

\* load(path)
Load(s) ==
    /\ store' = [store EXCEPT ![s] = AfterLoad(store[s])]
    /\ ret' = IF file.exists THEN "True" ELSE "False"
    /\ call' = [op |-> "load", self |-> s, k |-> 0, q |-> <<>>]
    /\ UNCHANGED <<file, result, saved>>
    /\ UNCHANGED <<chunkVars, cleanVars, pipeVars, fnVars>>

-----------------------------------------------------------------------------
(* The build-time stages: pipeline/extract_text.py, pipeline/chunk_text.py *)
(* and pipeline/build_index.py                                            *)

\* A text file is the sequence of its characters, the chunk file the
\* sequence of the JSON objects of its lines, a PDF the sequence of its
\* pages: what page.extract_text() returns for the page, or that it raises.

NoPdf == [exists |-> FALSE, pages |-> <<>>]

NoText == [exists |-> FALSE, text |-> <<>>]

NoChunks == [exists |-> FALSE, objects |-> <<>>]

EmDash == "U+2014"

EndsWith(s, c) == s # <<>> /\ s[Len(s)] = c

RECURSIVE RStrip(_, _)
\* str.rstrip(c)
RStrip(s, c) == IF EndsWith(s, c) THEN RStrip(SubSeq(s, 1, Len(s) - 1), c) ELSE s

RECURSIVE JoinedParts(_, _, _)
\* parts after the loop of _join_lines from the i-th line on
JoinedParts(parts, ls, i) ==
    IF i > Len(ls) THEN parts
    ELSE IF i > 1 /\ parts # <<>>
            /\ (EndsWith(parts[Len(parts)], "-") \/ EndsWith(parts[Len(parts)], EmDash))
    THEN JoinedParts(
             Append([parts EXCEPT ![Len(parts)] = RStrip(RStrip(@, "-"), EmDash)],
                    ls[i]), ls, i + 1)
    ELSE IF parts # <<>>
    THEN JoinedParts(parts \o <<<<" ">>, ls[i]>>, ls, i + 1)
    ELSE JoinedParts(<<ls[i]>>, ls, i + 1)

\* _join_lines, for lines without a line break
_join_lines(ls) ==
    Strip(CollapseRuns(Join(<<>>, JoinedParts(<<>>, ls, 1)), " ", 1))

\* a call of _join_lines
CallJoinLines ==
    /\ fn_pc = "_join_lines"
    /\ fn_val' = _join_lines(fn_arg)
    /\ fn_pc' = "returned"
    /\ UNCHANGED fn_arg
    /\ UNCHANGED <<chunkVars, cleanVars, storeVars, pipeVars>>

\* page_out with the open paragraph, if any, joined and appended
WithParagraph(page_out, paragraph) ==
    IF paragraph # <<>> THEN Append(page_out, _join_lines(paragraph)) ELSE page_out

RECURSIVE PageOut(_, _, _, _)
\* page_out after the loop over the lines ls of a page from the i-th on
PageOut(ls, i, page_out, paragraph) ==
    IF i > Len(ls) THEN WithParagraph(page_out, paragraph)
    ELSE IF _clean_line(ls[i]) = <<>>
    THEN PageOut(ls, i + 1, page_out, paragraph)
    ELSE IF _is_heading(_clean_line(ls[i]))
    THEN PageOut(ls, i + 1,
                 WithParagraph(page_out, paragraph)
                     \o <<<<>>, _clean_line(ls[i]), <<>>>>, <<>>)
    ELSE PageOut(ls, i + 1, page_out, Append(paragraph, _clean_line(ls[i])))

RECURSIVE Sections(_)
\* sections after the loop over the pages: a page that raises is skipped
Sections(pages) ==
    IF pages = <<>> THEN <<>>
    ELSE (IF Head(pages).raises THEN <<>>
          ELSE <<Join(<<NL>>, PageOut(Split(Head(pages).raw, NL), 1, <<>>, <<>>))>>)
         \o Sections(Tail(pages))

\* extract_text
extract_text(pages) == Strip(Join(<<NL, NL>>, Sections(pages)))

RECURSIVE ReadLines(_)
\* f.readlines(): every line keeps its line break
ReadLines(text) ==
    IF text = <<>> THEN <<>>
    ELSE IF \A i \in 1..Len(text) : text[i] # NL THEN <<text>>
    ELSE LET k == CHOOSE i \in 1..Len(text) :
                      text[i] = NL /\ \A j \in 1..(i - 1) : text[j] # NL
         IN <<SubSeq(text, 1, k)>> \o ReadLines(SubSeq(text, k + 1, Len(text)))

\* load_chunks: the objects of the lines, none when there is no file
load_chunks(f) == IF f.exists THEN f.objects ELSE <<>>

\* c.get("content", "").strip() is not empty
HasContent(c) == "content" \in DOMAIN c /\ Strip(c.content) # <<>>

\* the embedding model, a function of the text that returns a unit vector;
\* here the vector is chosen by the parity of the length of the text
Encode(text) == IF Len(text) % 2 = 0 THEN <<1, 0>> ELSE <<0, 1>>

\* create_embeddings
create_embeddings(texts) == [j \in 1..Len(texts) |-> Encode(texts[j])]

\* the batch size of config.py is 100; the model takes a small one, so that
\* a corpus of a few chunks makes several batches
EMBEDDING_BATCH_SIZE == 2

RECURSIVE Batches(_, _)
\* texts[i : i + EMBEDDING_BATCH_SIZE] for the i of the loop, from position
\* i on: what create_embeddings is called with, call after call
Batches(texts, i) ==
    IF i > Len(texts) THEN <<>>
    ELSE <<SubSeq(texts, i, Min(i + EMBEDDING_BATCH_SIZE - 1, Len(texts)))>>
         \o Batches(texts, i + EMBEDDING_BATCH_SIZE)

RECURSIVE AllEmbeddingsFullBatches(_, _)
\* a plausible slip: the loop stops before a last batch that is not full
AllEmbeddingsFullBatches(texts, i) ==
    IF i + EMBEDDING_BATCH_SIZE - 1 > Len(texts) THEN <<>>
    ELSE create_embeddings(SubSeq(texts, i, i + EMBEDDING_BATCH_SIZE - 1))
         \o AllEmbeddingsFullBatches(texts, i + EMBEDDING_BATCH_SIZE)

RECURSIVE AllEmbeddings(_, _)
\* all_embeddings after the loop over the batches from position i on
AllEmbeddings(texts, i) ==
    IF i > Len(texts) THEN <<>>
    ELSE create_embeddings(SubSeq(texts, i,
                                  Min(i + EMBEDDING_BATCH_SIZE - 1, Len(texts))))
         \o AllEmbeddings(texts, i + EMBEDDING_BATCH_SIZE)

RECURSIVE Indexed(_, _, _, _)
\* the store after the loop of store.add from the i-th chunk on: zip ends
\* with the shorter of the lists
Indexed(st, cs, embeddings, i) ==
    IF i > Min(Len(cs), Len(embeddings)) THEN st
    ELSE Indexed(Added(st, cs[i].content, embeddings[i],
                       [given |-> TRUE, value |-> cs[i]]),
                 cs, embeddings, i + 1)

\* the rows build_index.main saves for the chunks cs that have content
IndexRows(cs) ==
    DataFrame(Indexed(EmptyStore, cs,
                      AllEmbeddings([j \in 1..Len(cs) |-> cs[j].content], 1), 1))

\* chunks: the chunks of the chunk file that have content
Usable(f) == SelectSeq(load_chunks(f), HasContent)

\* texts
ContentsOf(cs) == [j \in 1..Len(cs) |-> cs[j].content]

\* a plausible slip: the store is saved in a finally clause
BuiltFileAlways(old, cs, raised) == [exists |-> TRUE, rows |-> IndexRows(cs)]

\* the index file after the chunks cs were embedded and indexed: save is
\* not reached when a call of create_embeddings raised
BuiltFile(old, cs, raised) ==
    IF raised THEN old ELSE [exists |-> TRUE, rows |-> IndexRows(cs)]

Artifacts == [manual_text |-> manual_text, chunks_file |-> chunks_file, file |-> file]

\* extract_text.main
ExtractMain ==
    /\ run' = [stage |-> "extract_text", before |-> Artifacts,
               calls |-> <<>>, raised |-> FALSE]
    /\ manual_text' = IF ~pdf.exists THEN manual_text
                      ELSE [exists |-> TRUE, text |-> extract_text(pdf.pages)]
    /\ UNCHANGED <<pdf, chunks_file>>
    /\ UNCHANGED <<chunkVars, cleanVars, storeVars, fnVars>>

\* chunk_text.main
ChunkMain ==
    /\ run' = [stage |-> "chunk_text", before |-> Artifacts,
               calls |-> <<>>, raised |-> FALSE]
    /\ chunks_file' = IF ~manual_text.exists THEN chunks_file
                      ELSE [exists |-> TRUE,
                            objects |-> chunk_text_from_file(ReadLines(manual_text.text))]
    /\ UNCHANGED <<pdf, manual_text>>
    /\ UNCHANGED <<chunkVars, cleanVars, storeVars, fnVars>>

\* build_index.main. The embedding provider may raise in any of its calls
\* (failing is the number of the call that raises, 0 when none does); run
\* records the batches create_embeddings was called with.
BuildIndexMain ==
    \E failing \in 0..Len(Batches(ContentsOf(Usable(chunks_file)), 1)) :
        /\ file.exists => failing = 0
        /\ run' = [stage |-> "build_index", before |-> Artifacts,
                   calls |-> IF file.exists THEN <<>>
                             ELSE SubSeq(Batches(ContentsOf(Usable(chunks_file)), 1), 1,
                                         IF failing = 0
                                         THEN Len(Batches(ContentsOf(Usable(chunks_file)), 1))
                                         ELSE failing),
                   raised |-> failing # 0]
        /\ file' = IF file.exists \/ Usable(chunks_file) = <<>> THEN file
                   ELSE BuiltFile(file, Usable(chunks_file), failing # 0)
        /\ UNCHANGED <<pdf, manual_text, chunks_file>>
        /\ UNCHANGED <<chunkVars, cleanVars, store, call, ret, result, saved, fnVars>>

-----------------------------------------------------------------------------
(* Inputs of the chunker *)

MaxLines == 3

L_1_Overview == <<"1", ".", " ", "O", "v", "e", "r", "v", "i", "e", "w">>
L_Intro == <<"T", "h", "i", "s", " ", "i", "s", " ", "t", "h", "e", " ",
             "i", "n", "t", "r", "o", ".">>
L_11_Details == <<"1", ".", "1", " ", "D", "e", "t", "a", "i", "l", "s">>
L_More == <<"M", "o", "r", "e", " ", "i", "n", "f", "o", " ", "h", "e", "r", "e", ".">>
L_2_Next == <<"2", ".", " ", "N", "e", "x", "t", " ", "C", "h", "a", "p", "t", "e", "r">>
L_Final == <<"F", "i", "n", "a", "l", " ", "t", "e", "x", "t", ".">>

ExampleLines == <<L_1_Overview, L_Intro, L_11_Details, L_More, L_2_Next, L_Final>>

LinePool ==
    { <<"1", ".", " ", "A">>,
      <<"1", ".">>,
      <<"1", ".", "1", " ", "B">>,
      <<" ", "1", ".", "1", ".", "2", " ", " ", "C", " ">>,
      <<"2", ".", "D">>,
      <<"1", ".", "1">>,
      <<"x", " ", "y">>,
      <<"z">>,
      <<" ">>,
      <<>> }

RECURSIVE SeqsUpTo(_, _)
SeqsUpTo(S, n) ==
    IF n = 0 THEN {<<>>}
    ELSE LET shorter == SeqsUpTo(S, n - 1)
         IN shorter \cup {Append(s, x) : s \in shorter, x \in S}

ChunkInputs == SeqsUpTo(LinePool, MaxLines) \cup {ExampleLines}

\* the state of a component that a specification does not run
ChunkIdle ==
    /\ lines = <<>> /\ pos = 1 /\ chunks = <<>> /\ current_id = None
    /\ current_title = <<>> /\ current_content = <<>> /\ chain = <<>>
    /\ output = <<>> /\ cpc = "idle"

CleanIdle == raw = <<>> /\ cleaned = <<>> /\ heading = FALSE /\ npc = "idle"

StoreIdle ==
    /\ store = [s \in Instances |-> EmptyStore]
    /\ file = NoFile
    /\ call = [op |-> "none", self |-> "s1", k |-> 0, q |-> <<>>]
    /\ ret = "None"
    /\ result = <<>>
    /\ saved = [called |-> FALSE, records |-> EmptyStore]

NoArtifacts == [manual_text |-> NoText, chunks_file |-> NoChunks, file |-> NoFile]

PipeIdle ==
    /\ pdf = NoPdf /\ manual_text = NoText /\ chunks_file = NoChunks
    /\ run = [stage |-> "none", before |-> NoArtifacts, calls |-> <<>>, raised |-> FALSE]

FnIdle == fn_arg = <<>> /\ fn_val = <<>> /\ fn_pc = "idle"

InitChunk ==
    /\ lines \in ChunkInputs
    /\ pos = 1
    /\ chunks = <<>>
    /\ current_id = None
    /\ current_title = <<>>
    /\ current_content = <<>>
    /\ chain = <<>>
    /\ output = <<>>
    /\ cpc = "loop"
    /\ CleanIdle
    /\ StoreIdle
    /\ PipeIdle
    /\ FnIdle

NextChunk == StepBlank \/ StepHeading \/ StepBody \/ Finish

SpecChunk == InitChunk /\ [][NextChunk]_vars

\* _level is called with an id, and a document is chunked
MaxIdLen == 4

IdChars == {"1", "2", "."}

LevelIds ==
    SeqsUpTo(IdChars, MaxIdLen)
        \cup {<<"1", "0">>, <<"1", ".", "2", ".", "3", ".", "4">>,
              <<"1", ".", "2", ".", "3", ".", "4", ".", "5">>}

LevelDocs == SeqsUpTo(LinePool, 1) \cup {ExampleLines}

InitLevel ==
    /\ fn_arg \in LevelIds
    /\ fn_val = <<>>
    /\ fn_pc = "_level"
    /\ lines \in LevelDocs
    /\ pos = 1
    /\ chunks = <<>>
    /\ current_id = None
    /\ current_title = <<>>
    /\ current_content = <<>>
    /\ chain = <<>>
    /\ output = <<>>
    /\ cpc = "loop"
    /\ CleanIdle
    /\ StoreIdle
    /\ PipeIdle

NextLevel == CallLevel \/ StepBlank \/ StepHeading \/ StepBody \/ Finish

SpecLevel == InitLevel /\ [][NextLevel]_vars

-----------------------------------------------------------------------------
(* Inputs of the normaliser *)

MaxRawLen == 4

RawChars == {"1", " ", ".", "R", "-"}

ExampleRaw == <<"1", " ", "7", " ", ".", " ", "R", "o", "u", "t", "i", "n",
                "g", " ", "4", "2">>

RawInputs == SeqsUpTo(RawChars, MaxRawLen) \cup {ExampleRaw}

InitClean ==
    /\ raw \in RawInputs
    /\ cleaned = <<>>
    /\ heading = FALSE
    /\ npc = "raw"
    /\ ChunkIdle
    /\ StoreIdle
    /\ PipeIdle
    /\ FnIdle

NextClean == CleanLine \/ CheckHeading

SpecClean == InitClean /\ [][NextClean]_vars

\* _join_lines is called with the lines of a paragraph: lines that
\* _clean_line leaves as they are and that are no headings
MaxJoinLineLen == 3

JoinChars == {"a", "-", EmDash, " "}

ParagraphLines ==
    {l \in SeqsUpTo(JoinChars, MaxJoinLineLen) :
        l # <<>> /\ _clean_line(l) = l /\ ~_is_heading(l)}

L_exam == <<"e", "x", "a", "m", "-">>
L_ple == <<"p", "l", "e">>
L_one == <<"o", "n", "e">>
L_two == <<"t", "w", "o">>

Paragraphs ==
    {<<a>> : a \in ParagraphLines}
        \cup {<<a, b>> : a, b \in ParagraphLines}
        \cup {<<a, b, c>> : a, c \in {L_exam, L_one}, b \in ParagraphLines}
        \cup {<<L_exam, L_ple>>, <<L_one, L_two>>}

InitJoin ==
    /\ fn_arg \in Paragraphs
    /\ fn_val = <<>>
    /\ fn_pc = "_join_lines"
    /\ ChunkIdle
    /\ CleanIdle
    /\ StoreIdle
    /\ PipeIdle

NextJoin == CallJoinLines

SpecJoin == InitJoin /\ [][NextJoin]_vars

-----------------------------------------------------------------------------
(* Inputs of the vector store *)

MaxRecords == 2

MaxK == 3

MaxNegK == 2

Embeddings == {<<0, 0>>, <<1, 0>>, <<0, 1>>, <<1, 1>>, <<-1, 0>>}

Texts == {<<"a">>, <<"b">>}

ChunkMeta == [given |-> TRUE, value |-> [chunk_id |-> <<"1">>]]

InitStore ==
    /\ StoreIdle
    /\ ChunkIdle
    /\ CleanIdle
    /\ PipeIdle
    /\ FnIdle

\* a store is filled and searched
NextSearch ==
    \/ \E t \in Texts, e \in Embeddings :
          Len(store["s1"].texts) < MaxRecords /\ Add("s1", t, e, ChunkMeta)
    \/ \E q \in Embeddings, k \in (0 - MaxNegK)..MaxK : Search("s1", q, k)

SpecSearch == InitStore /\ [][NextSearch]_vars

\* what add is called with when a store is saved and loaded
PersistRecords ==
    {[text |-> <<"a">>, embedding |-> <<1, 0>>],
     [text |-> <<"b">>, embedding |-> <<0, 1>>]}

MetaArgs ==
    {[given |-> FALSE, value |-> <<>>],
     ChunkMeta,
     [given |-> TRUE, value |-> [chunk_id |-> <<"2">>]],
     [given |-> TRUE, value |-> [chunk_id |-> <<"2">>, title |-> <<"B">>]]}

\* a store is filled and saved, and stores are loaded from the file
NextPersist ==
    \/ \E r \in PersistRecords, m \in MetaArgs :
          Len(store["s1"].texts) < MaxRecords /\ Add("s1", r.text, r.embedding, m)
    \/ Save("s1")
    \/ \E s \in Instances : Load(s)

SpecPersist == InitStore /\ [][NextPersist]_vars

-----------------------------------------------------------------------------
(* Inputs of the build-time stages *)

Page(text) == [raises |-> FALSE, raw |-> text]

BadPage == [raises |-> TRUE, raw |-> <<>>]

\* a chapter heading with a paragraph that is hyphenated at a line break
PdfA == <<Page(<<"1", " ", ".", " ", "A", " ", "4", "2", NL, "c", "o", "-", NL, "d", "e", NL, "1", ".", "1", " ", "B", NL, "x">>)>>

\* two pages, the first of which cannot be read
PdfB == <<BadPage, Page(<<"2", ".", "D", NL, " ", "z", " ", NL, "7">>)>>

PdfPool ==
    {NoPdf, [exists |-> TRUE, pages |-> PdfA], [exists |-> TRUE, pages |-> PdfB],
     [exists |-> TRUE, pages |-> <<>>]}

\* a text written by hand
TextOld == <<"1", ".", " ", "A", NL, "o", "l", "d", NL, NL, "2", ".", " ", "C", NL>>

TextPool ==
    {NoText, [exists |-> TRUE, text |-> TextOld],
     [exists |-> TRUE, text |-> extract_text(PdfA)],
     [exists |-> TRUE, text |-> <<>>]}

\* three chapters with body text
TextThree == <<"1", ".", " ", "A", NL, "a", NL, "2", ".", " ", "B", NL, "b", "b", NL, "3", ".", " ", "C", NL, "c">>

\* six chapters, the fourth without body text
TextFive ==
    <<"1", ".", " ", "A", NL, "a", NL, "2", ".", " ", "B", NL, "b", "b", NL, "3", ".", " ", "C", NL, "c", NL, "4", ".", " ", "D", NL>>
        \o <<"5", ".", " ", "E", NL, "e", "e", NL, "6", ".", " ", "F", NL, "f">>

ChunksPool ==
    {NoChunks, [exists |-> TRUE, objects |-> <<>>],
     [exists |-> TRUE, objects |-> chunk_text_from_file(ReadLines(TextOld))],
     [exists |-> TRUE, objects |-> chunk_text_from_file(<<<<"3", ".", " ", "E">>>>)],
     [exists |-> TRUE, objects |-> chunk_text_from_file(ReadLines(TextThree))],
     [exists |-> TRUE, objects |-> chunk_text_from_file(ReadLines(TextFive))]}

IndexPool ==
    {NoFile,
     [exists |-> TRUE,
      rows |-> IndexRows(SelectSeq(chunk_text_from_file(ReadLines(TextOld)), HasContent))]}

InitPipeline ==
    /\ pdf \in PdfPool
    /\ manual_text \in TextPool
    /\ chunks_file \in ChunksPool
    /\ file \in IndexPool
    /\ run = [stage |-> "none", before |-> NoArtifacts, calls |-> <<>>, raised |-> FALSE]
    /\ store = [s \in Instances |-> EmptyStore]
    /\ call = [op |-> "none", self |-> "s1", k |-> 0, q |-> <<>>]
    /\ ret = "None"
    /\ result = <<>>
    /\ saved = [called |-> FALSE, records |-> EmptyStore]
    /\ ChunkIdle
    /\ CleanIdle
    /\ FnIdle

NextPipeline == ExtractMain \/ ChunkMain \/ BuildIndexMain

SpecPipeline == InitPipeline /\ [][NextPipeline]_vars

-----------------------------------------------------------------------------
(* Properties of the paragraph join *)

RECURSIVE JoinedByRule(_)
\* the lines joined by the stated rule: a line that ends in a hyphen or an
\* em dash and has a successor loses that one character and is followed by
\* its successor directly, any other line by one space and its successor
JoinedByRule(ls) ==
    IF Len(ls) = 1 THEN ls[1]
    ELSE IF EndsWith(ls[1], "-") \/ EndsWith(ls[1], EmDash)
    THEN SubSeq(ls[1], 1, Len(ls[1]) - 1) \o JoinedByRule(Tail(ls))
    ELSE ls[1] \o <<" ">> \o JoinedByRule(Tail(ls))

\* C15: _join_lines removes exactly the one trailing hyphen or em dash of a
\* line that has a successor and appends the successor without a space,
\* puts one space between any other two lines, and returns a paragraph
\* without runs of whitespace and without whitespace at its ends;
\* ["exam-", "ple"] gives "example" and ["one", "two"] gives "one two".
C15_JoinLinesRule ==
    fn_pc = "returned" =>
        /\ fn_val = Strip(CollapseRuns(JoinedByRule(fn_arg), " ", 1))
        /\ \A k \in 1..Len(fn_val) :
               fn_val[k] \in Space =>
                   k > 1 /\ k < Len(fn_val) /\ fn_val[k + 1] \notin Space

-----------------------------------------------------------------------------
(* Properties of the vector store *)

\* the norm of v is exactly zero
IsZeroVector(v) == \A c \in 1..Len(v) : v[c] = 0

\* the number of records of st that come before record i when the records
\* are ordered by similarity to q descending and, among equals, by insertion
RankBefore(st, q, i) ==
    Cardinality({m \in 1..Len(st.vectors) :
        \/ Greater(Similarity(q, ToList(st.vectors[m])),
                   Similarity(q, ToList(st.vectors[i])))
        \/ /\ Similarity(q, ToList(st.vectors[m])) = Similarity(q, ToList(st.vectors[i]))
           /\ m < i})

\* C3: search returns an empty sequence for every k <= 0.
C3_NonPositiveKEmpty ==
    (call.op = "search" /\ call.k <= 0) => result = <<>>

\* C4: for k >= 0, search returns min(k, size) entries, the first ones of the
\* records ordered by similarity descending, records of equal similarity in
\* insertion order (all records when k >= size, none for an empty store).
C4_TopKStable ==
    (call.op = "search" /\ call.k >= 0) =>
        LET st == store[call.self]
        IN /\ Len(result) = Min(call.k, Len(st.texts))
           /\ \A j \in 1..Len(result) :
                 \E i \in 1..Len(st.texts) :
                    /\ RankBefore(st, call.q, i) = j - 1
                    /\ result[j] = [text |-> st.texts[i],
                                    metadata |-> st.metadata[i],
                                    similarity |-> Similarity(call.q, ToList(st.vectors[i]))]

\* a search that cuts the list between two records of equal similarity
C4_Witness ==
    /\ call.op = "search" /\ call.k = 1
    /\ Len(store[call.self].texts) = 2
    /\ store[call.self].texts[1] # store[call.self].texts[2]
    /\ Similarity(call.q, ToList(store[call.self].vectors[1]))
         = Similarity(call.q, ToList(store[call.self].vectors[2]))
    /\ Len(result) = 1
    /\ result[1].text = store[call.self].texts[1]

\* C5: after any adds and a save, a load by another store returns
\* True and leaves it with the records of the saved store, in order, with
\* equal text, metadata and embedding.
C5_RoundTrip ==
    (call.op = "load" /\ call.self = "s2" /\ saved.called) =>
        ret = "True" /\ store["s2"] = saved.records

\* C6: load on a path without a file returns False and leaves the vectors,
\* texts and metadata of the store as they were.
C6_LoadMissingFile ==
    [][(~file.exists /\ call'.op = "load") => (ret' = "False" /\ store' = store)]_vars

\* a store with records after a load that found no file
C6_Witness ==
    /\ call.op = "load" /\ ret = "False" /\ ~file.exists
    /\ store[call.self].texts # <<>>

\* C7: search divides by no zero norm: a record gets the similarity 0 when
\* the query or its vector has norm zero, and the other records are scored
\* by their cosine and ranked as usual.
C7_ZeroNormSimilarity ==
    call.op = "search" =>
        LET st == store[call.self]
        IN \A j \in 1..Len(result) :
              /\ result[j].similarity.den # 0
              /\ \E i \in 1..Len(st.texts) :
                    /\ RankBefore(st, call.q, i) = j - 1
                    /\ result[j].text = st.texts[i]
                    /\ result[j].similarity =
                         IF IsZeroVector(call.q) \/ IsZeroVector(ToList(st.vectors[i]))
                         THEN Zero
                         ELSE Fraction(Dot(call.q, ToList(st.vectors[i]))
                                         * Abs(Dot(call.q, ToList(st.vectors[i]))),
                                       Dot(call.q, call.q)
                                         * Dot(ToList(st.vectors[i]), ToList(st.vectors[i])))

\* a search with a query of non-zero norm over a record of norm zero and a
\* record with a similarity other than 0
C7_Witness ==
    /\ call.op = "search" /\ ~IsZeroVector(call.q)
    /\ Len(result) = 2
    /\ \E i \in 1..2 : IsZeroVector(ToList(store[call.self].vectors[i]))
    /\ \E j \in 1..2 : result[j].similarity = Zero
    /\ \E j \in 1..2 : result[j].similarity # Zero

\* C2: _clean_line maps the raw line "1 7 . Routing 42" to "17. Routing": the
\* page number is stripped, the split digit pair is merged, the space between
\* the dot and the title is kept, and _is_heading accepts the result.
C2_ExampleNormalised ==
    (raw = ExampleRaw /\ npc # "raw") =>
        /\ cleaned = <<"1", "7", ".", " ", "R", "o", "u", "t", "i", "n", "g">>
        /\ npc = "classified" => heading

-----------------------------------------------------------------------------
(* Properties of the chunker *)

RECURSIVE NonBlank(_)
\* the stripped non-empty lines of the input, in order
NonBlank(ls) ==
    IF ls = <<>> THEN <<>>
    ELSE (IF Strip(Head(ls)) # <<>> THEN <<Strip(Head(ls))>> ELSE <<>>)
         \o NonBlank(Tail(ls))

IsHeadingLine(line) == main_m(line) \/ sub_m(line)

\* the heading lines of the input, in order
HeadingLines(ls) == SelectSeq(NonBlank(ls), IsHeadingLine)

\* the input lines that match the sub-heading pattern, in order
SubHeadingLines(ls) == SelectSeq(NonBlank(ls), sub_m)

\* C1: every non-empty line that matches the sub-heading pattern opens a
\* chunk whose id is the full dotted numeral and whose title is the text after
\* it; the six example lines yield exactly three chunks with the ids "1",
\* "1.1" and "2", the second one titled "Details", of level sub, with the
\* content "More info here." and the parent chain [{"1", "Overview"}].
C1_SubHeadingOpensChunk ==
    /\ (pos > 1 /\ sub_m(Strip(lines[pos - 1])))
          => /\ current_id = sub_group1(Strip(lines[pos - 1]))
             /\ current_title = sub_group2(Strip(lines[pos - 1]))
    /\ (cpc = "done" /\ lines = ExampleLines)
          => /\ Len(output) = 3
             /\ output[1].chunk_id = <<"1">>
             /\ output[3].chunk_id = <<"2">>
             /\ output[2] = [chunk_id |-> <<"1", ".", "1">>,
                             title |-> <<"D", "e", "t", "a", "i", "l", "s">>,
                             level |-> "sub",
                             content |-> L_More,
                             parent_chain |->
                                 <<[chunk_id |-> <<"1">>,
                                    title |-> <<"O", "v", "e", "r", "v", "i",
                                                "e", "w">>]>>]

\* the numeral a heading line is numbered with in the document: the dotted
\* numeral of a sub heading, the integer of a main heading
Numeral(line) == IF sub_m(line) THEN sub_group1(line) ELSE main_group1(line)

\* the document numbers no two of its headings alike
DistinctNumerals(ls) ==
    \A i, j \in 1..Len(HeadingLines(ls)) :
        i # j => Numeral(HeadingLines(ls)[i]) # Numeral(HeadingLines(ls)[j])

\* C9: no two chunks of the output have the same id. It is stated for the
\* documents that number no two headings alike: one that repeats a numeral
\* has two chunks of that id whatever the chunker does.
C9_UniqueIds ==
    (cpc = "done" /\ DistinctNumerals(lines)) =>
        \A i, j \in 1..Len(output) :
            i # j => output[i].chunk_id # output[j].chunk_id

RECURSIVE LeadingBody(_)
\* the number of body lines at the start of the stripped non-empty lines nb
LeadingBody(nb) ==
    IF nb = <<>> \/ IsHeadingLine(Head(nb)) THEN 0
    ELSE 1 + LeadingBody(Tail(nb))

RECURSIVE BodyCounts(_)
\* for each heading line of the stripped non-empty lines nb, in order, the
\* number of body lines between it and the next heading
BodyCounts(nb) ==
    IF nb = <<>> THEN <<>>
    ELSE IF IsHeadingLine(Head(nb))
    THEN <<LeadingBody(Tail(nb))>> \o BodyCounts(Tail(nb))
    ELSE BodyCounts(Tail(nb))

StrictPrefixes(cid) ==
    LET dots == {k \in 1..Len(cid) : cid[k] = "."}
    IN [n \in 1..Cardinality(dots) |->
           SubSeq(cid, 1,
                  (CHOOSE k \in dots :
                      Cardinality({m \in dots : m < k}) = n - 1) - 1)]

\* C11: for every emitted chunk, the parent chain has as many entries as the
\* id has dots, its entries carry the strict prefixes of the id from the
\* top-level one to the nearest ancestor, and none is the chunk itself.
C11_ParentChainOfId ==
    \A i \in 1..Len(chunks) :
        /\ Len(chunks[i].parent_chain) = Count(chunks[i].chunk_id, ".")
        /\ [j \in 1..Len(chunks[i].parent_chain) |->
               chunks[i].parent_chain[j].chunk_id] = StrictPrefixes(chunks[i].chunk_id)
        /\ \A j \in 1..Len(chunks[i].parent_chain) :
               chunks[i].parent_chain[j].chunk_id # chunks[i].chunk_id

\* a finished run that emitted the chunk of a chapter heading and the chunk
\* of a line numbered as a section of it
C11_Witness ==
    /\ cpc = "done"
    /\ Len(output) >= 2
    /\ \E i \in 1..Len(lines) : sub_m(Strip(lines[i]))
    /\ \E i \in 1..Len(lines) : ~sub_m(Strip(lines[i])) /\ main_m(Strip(lines[i]))

\* the number of dot separators of an id
Dots(cid) == Cardinality({k \in 1..Len(cid) : cid[k] = "."})

\* the chain a sub heading of the id cid and the title t opens, by the
\* stated rule, when the chain stood at ch: one entry per strict prefix of
\* the id, titled as the entry of ch with that id or "Chapter {prefix}" when
\* ch has none, and the entry of the heading itself
ChainByRule(cid, t, ch) ==
    [n \in 1..(Dots(cid) + 1) |->
        IF n = Dots(cid) + 1 THEN [chunk_id |-> cid, title |-> t]
        ELSE [chunk_id |-> StrictPrefixes(cid)[n],
              title |-> IF \E e \in 1..Len(ch) : ch[e].chunk_id = StrictPrefixes(cid)[n]
                        THEN ch[CHOOSE e \in 1..Len(ch) :
                                    ch[e].chunk_id = StrictPrefixes(cid)[n]].title
                        ELSE ChapterPrefix \o StrictPrefixes(cid)[n]]]

\* C16: when a line that is a sub heading with the id p1.p2...pn and the
\* title t is read, the running chain becomes the n entries of the rule: the
\* strict prefixes of the id, each titled from the chain as it stood before
\* the heading or "Chapter {prefix}", and then {id, t}.
C16_SubHeadingChain ==
    [][(cpc = "loop" /\ pos <= Len(lines) /\ sub_m(CurLine))
          => chain' = ChainByRule(sub_group1(CurLine), sub_group2(CurLine), chain)]_vars

\* C12: the level of an id is main iff the id has no dot, sub iff it has
\* one, subsub iff it has two, deep iff it has three or more; and every
\* emitted chunk carries the level of its own id.
C12_LevelByDots ==
    /\ fn_pc = "returned" =>
          /\ fn_val = "main" <=> Dots(fn_arg) = 0
          /\ fn_val = "sub" <=> Dots(fn_arg) = 1
          /\ fn_val = "subsub" <=> Dots(fn_arg) = 2
          /\ fn_val = "deep" <=> Dots(fn_arg) >= 3
    /\ \A i \in 1..Len(chunks) :
          /\ chunks[i].level = "main" <=> Dots(chunks[i].chunk_id) = 0
          /\ chunks[i].level = "sub" <=> Dots(chunks[i].chunk_id) = 1
          /\ chunks[i].level = "subsub" <=> Dots(chunks[i].chunk_id) = 2
          /\ chunks[i].level = "deep" <=> Dots(chunks[i].chunk_id) >= 3

\* _level has returned for an id of more than three dots, and the chunks of
\* a document have been emitted
C12_Witness ==
    /\ fn_pc = "returned"
    /\ Dots(fn_arg) > 3
    /\ fn_val = "deep"
    /\ cpc = "done"
    /\ Len(output) >= 2

RECURSIVE BodyUntilHeading(_)
\* the body lines at the start of the stripped non-empty lines nb
BodyUntilHeading(nb) ==
    IF nb = <<>> \/ IsHeadingLine(Head(nb)) THEN <<>>
    ELSE <<Head(nb)>> \o BodyUntilHeading(Tail(nb))

RECURSIVE BodyByHeading(_)
\* for each heading line of the stripped non-empty lines nb, in order, the
\* body lines between it and the next heading
BodyByHeading(nb) ==
    IF nb = <<>> THEN <<>>
    ELSE IF IsHeadingLine(Head(nb))
    THEN <<BodyUntilHeading(Tail(nb))>> \o BodyByHeading(Tail(nb))
    ELSE BodyByHeading(Tail(nb))

\* C17: the body lines before the first heading are in the content of no
\* chunk, and an input without a heading yields no chunk; every body line
\* after the first heading is in the content of exactly one chunk, that of
\* the nearest heading before it: the content of each chunk is its own body
\* lines, in order, joined by one space.
C17_BodyBelongsToNearestHeading ==
    cpc = "done" =>
        /\ Len(output) = Len(BodyByHeading(NonBlank(lines)))
        /\ \A i \in 1..Len(output) :
               output[i].content = Join(<<" ">>, BodyByHeading(NonBlank(lines))[i])
        /\ (\A i \in 1..Len(lines) : ~IsHeadingLine(Strip(lines[i]))) => output = <<>>

\* a finished run on a document that starts with body text and has body
\* text under its first heading
C17_Witness ==
    /\ cpc = "done"
    /\ Len(lines) >= 3
    /\ Strip(lines[1]) # <<>> /\ ~IsHeadingLine(Strip(lines[1]))
    /\ IsHeadingLine(Strip(lines[2]))
    /\ Len(output) = 1
    /\ output[1].content = Strip(lines[3])
    /\ output[1].content # <<>>

-----------------------------------------------------------------------------
(* Properties of the build-time stages *)

\* C8: a stage that finds its output artifact when it starts leaves the
\* artifact as it found it.
C8_StagesIdempotent ==
    /\ (run.stage = "extract_text" /\ run.before.manual_text.exists)
          => manual_text = run.before.manual_text
    /\ (run.stage = "chunk_text" /\ run.before.chunks_file.exists)
          => chunks_file = run.before.chunks_file
    /\ (run.stage = "build_index" /\ run.before.file.exists)
          => file = run.before.file

\* the chunks of a chunk file whose content holds a character that is not
\* whitespace, in the order of the file
NonBlankChunks(f) ==
    IF ~f.exists THEN <<>>
    ELSE SelectSeq(f.objects,
                   LAMBDA c : \E k \in 1..Len(c.content) : c.content[k] \notin Space)

\* C13: build_index.main embeds the texts in consecutive batches of the
\* batch size, the last one possibly shorter, and keeps the order: the saved
\* index has one record per chunk with non-blank content, in the order of
\* the chunk file, whose text is the content of the chunk, whose embedding is
\* what the provider returns for that text and whose metadata is the chunk.
C13_BatchesKeepOrder ==
    (run.stage = "build_index" /\ ~run.before.file.exists /\ ~run.raised
        /\ NonBlankChunks(run.before.chunks_file) # <<>>) =>
        LET cs == NonBlankChunks(run.before.chunks_file)
        IN /\ file.exists
           /\ Len(file.rows) = Len(cs)
           /\ \A n \in 1..Len(cs) :
                 /\ file.rows[n].texts = cs[n].content
                 /\ file.rows[n].vectors = Encode(cs[n].content)
                 /\ file.rows[n].metadata = cs[n]
           /\ Join(<<>>, run.calls) = [n \in 1..Len(cs) |-> cs[n].content]
           /\ \A b \in 1..Len(run.calls) :
                 /\ Len(run.calls[b]) >= 1
                 /\ Len(run.calls[b]) <= EMBEDDING_BATCH_SIZE
                 /\ b < Len(run.calls) => Len(run.calls[b]) = EMBEDDING_BATCH_SIZE

\* an index built in two batches or more, the last of which is not full
C13_Witness ==
    /\ run.stage = "build_index" /\ ~run.before.file.exists /\ ~run.raised
    /\ file.exists
    /\ Len(run.calls) >= 2
    /\ Len(run.calls[Len(run.calls)]) < EMBEDDING_BATCH_SIZE
    /\ Len(file.rows) < Len(run.before.chunks_file.objects)

\* C14: build_index.main, started without an index file and with a chunk
\* file that is missing or holds no chunk with non-blank content, calls the
\* embedding provider not once and writes no index file; and when a call of
\* the provider raises, main raises and no index file has been written.
C14_NoPartialIndex ==
    /\ (run.stage = "build_index" /\ ~run.before.file.exists
           /\ NonBlankChunks(run.before.chunks_file) = <<>>)
          => (run.calls = <<>> /\ ~file.exists /\ ~run.raised)
    /\ (run.stage = "build_index" /\ run.raised) => ~file.exists

\* a run that raised in its second call of the provider
C14_Witness ==
    /\ run.stage = "build_index" /\ run.raised
    /\ Len(run.calls) = 2
    /\ ~file.exists

====
